---- MODULE Spec2Model ----
(***************************************************************************)
(* A model of lcache: the read-through cache of cache.go (Get, Set,       *)
(* RunRefresh, StopRefresh), the sampling eviction of eviction.go and the  *)
(* concurrent map with its channel-fed entry count.                        *)
(*                                                                         *)
(* Every access to shared memory (a map operation under its shard lock, a  *)
(* read or a write of one field of a cacheEntry, a channel send or         *)
(* receive, a read of the clock or of cmap.Count) is one step, so that the *)
(* callers, the refresh workers and the updateCount goroutine interleave   *)
(* as goroutines do.  A run-time panic ends the program.                   *)
(***************************************************************************)
EXTENDS Integers, Sequences, FiniteSets, TLC

\* ---------------------------------------------------------------- bounds
Keys == {"a", "b"}               \* the keys callers use
SetVals == {"S1", "S2"}          \* the values callers pass to Set
LoadVals == {"nil", "L1"}        \* the values Loader.Load returns (nil included)
Threads == {"t1", "t2"}          \* goroutines calling Get / Set / StopRefresh
Workers == {"w1", "w2"}          \* goroutines running RunRefresh
MaxTime == 3
\* the clock runs 1..MaxTime
MaxCalls == 3
\* calls of Get / Set / StopRefresh in one run
DeepCalls == 5
\* calls in one run of SpecRefresh
BlockCalls == 6
\* calls in one run of SpecBlock
LiveCalls == 2
\* calls in one run of SpecLive
StopCalls == 3
\* calls in one run of SpecStop
RaceCalls == 3
\* calls in one run of SpecRace
CountCalls == 3
\* calls in one run of SpecCount
ConfigCalls == 2
\* calls in one run of SpecConfig
RefreshCap == 2
\* capacity of the refreshes channel, scaled down from make(chan string, 32)
CountCap == 2
\* capacity of cmap.CountChange, scaled down from make(chan int, 32)
numShards == 2
\* shards of the map, scaled down from NewConcurrentMap(params.NumShards)
SnapCalls == 2
\* calls of m.Set / m.Del in one run of SpecSnapshot
WorkerCalls == 3
\* calls in one run of SpecWorkers

\* ---------------------------------------------------------------- values
NULL == 0
\* a nil *cacheEntry
ZeroTime == 0
\* time.Time{}: before every reading of the clock
NoErr == "noerr"
\* a nil error
LoadErr == "loadErr"
\* the error a failing Loader.Load returns
refreshErrNotEnabled == "cache is not configured with graceful refresh"
refreshErrNoLoader == "cache is not configured with a loader"
NilVal == "nil"
\* a nil interface{} value
ZeroVal == "0"
\* the int 0 that Get returns beside a Loader error

Addrs == 1 .. (Cardinality(Keys) + Cardinality(Threads) + Cardinality(Workers))

\* cacheEntry{} as allocated: every field at its zero value
cacheEntry == [value |-> NilVal, expiration |-> ZeroTime, lastUsed |-> ZeroTime,
               refreshing |-> FALSE, refreshError |-> NoErr]

\* evictableEntry{}
evictableEntry == [key |-> "", value |-> NULL]

VARIABLES
    params,             \* cache.Params after NewCache's clamping
    clock,              \* time.Now()
    entries,            \* cmap shards, flattened: key -> *cacheEntry (NULL: absent)
    heap,               \* the cacheEntry objects, by address
    Count,              \* cmap.Count
    CountChange,        \* cmap.CountChange, the channel's buffer
    refreshes,          \* cache.refreshes, the channel's buffer
    closed,             \* cache.refreshes has been closed
    evictionPool,       \* cache.evictionPool
    evictionPoolTop,    \* cache.evictionPoolTop
    th,                 \* per calling goroutine: position and locals
    wk,                 \* per RunRefresh goroutine: position and locals
    crashed,            \* a goroutine panicked: the program is gone
    calls,              \* calls the callers may still make
    iter,               \* the goroutine cmap.All starts, and its channel
    hist                \* history of the run, read only by the properties

vars == <<params, clock, entries, heap, Count, CountChange, refreshes, closed,
          evictionPool, evictionPoolTop, th, wk, crashed, calls, iter, hist>>

\* ---------------------------------------------------------------- helpers
\* time.Time.Before / time.Time.After
Before(a, b) == a < b
After(a, b) == a > b

\* the addresses still referenced from the map, a goroutine's locals or the pool
Live(e, t, w, p, i) ==
    ({e[k] : k \in Keys} \cup {t[x].entry : x \in Threads}
        \cup {w[x].entry : x \in Workers}
        \cup {p[z].value : z \in 1 .. Len(p)}
        \cup {i.keyVals[z].Val : z \in 1 .. Len(i.keyVals)}) \ {NULL}

\* &cacheEntry{...}: the lowest address nothing refers to
NewAddr ==
    CHOOSE a \in Addrs :
        /\ a \notin Live(entries, th, wk, evictionPool, iter)
        /\ \A b \in Addrs : b \notin Live(entries, th, wk, evictionPool, iter) => a <= b

\* the heap after a step: what nothing refers to any more is collected
Collect(h) ==
    heap' = [a \in Addrs |->
                IF a \in Live(entries', th', wk', evictionPool', iter') THEN h[a] ELSE cacheEntry]

\* cacheEntry.updateTimestamps
updateTimestamps(e, expireAfter) ==
    [e EXCEPT !.lastUsed = clock,
              !.expiration = IF expireAfter > 0 THEN clock + expireAfter ELSE @]

\* cmap.Get: the entry stored under key, NULL when there is none
cmapGet(key) == entries[key]

\* cmap.Len
cmapLen == Count

Idle == [pc |-> "idle", op |-> "none", key |-> "", val |-> NilVal, now |-> ZeroTime,
         entry |-> NULL, rvalue |-> NilVal, rerr |-> NoErr]

WIdle == [pc |-> "idle", key |-> "", entry |-> NULL, val |-> NilVal, ret |-> NoErr]

\* a call returns (value, err) to its caller
Return(t, value, err) ==
    [th EXCEPT ![t].pc = "done", ![t].entry = NULL, ![t].val = NilVal,
               ![t].rvalue = value, ![t].rerr = err]

Goto(t, label) == [th EXCEPT ![t].pc = label]

\* ---------------------------------------------------------------- history
\* What the properties need to know of the past; the code never reads it.
\*   lastSet[k]   the value and time of the last Set(k) that returned, None once
\*                another Set(k) is called
\*   seen[k]      some Get(k) or Set(k) has been called
\*   exp[t]       lastSet of its key when t's Get was called
\*   first[t]     t's call is the first call on its key
\*   path[t]      the branch t's Get has taken
\*   held[t]      the value of the entry t's Get found, when it found it
\*   afterDel[t]  t's previous call was a Get of the same key that deleted the
\*                expired entry
\*   picked[w]    the time at which worker w received the key it is refreshing
\*   missed[w]    worker w has received a key that had no entry in the map
\*   drained[w]   worker w has received a key from the closed queue
\*   silent[t]    the map update of t's running call that sent no count delta: "replaced"
\*                for a Set of a key that was there, "absent" for a Del of a key
\*                that was not
None == [val |-> "none", at |-> ZeroTime]

Called(t) == th[t].pc \in {"idle", "done"} /\ th'[t].pc \in {"G88", "S144"}

Returned(t) == th[t].pc \notin {"idle", "done", "panic"} /\ th'[t].pc = "done"

Began(t) == th[t].pc \in {"idle", "done"} /\ th'[t] # th[t]

PathStep(from, to, old) ==
    CASE from = "G92"  /\ to = "G93"            -> "error"
      [] from = "G98"  /\ to = "G113"           -> "fresh"
      [] from = "G98"  /\ to = "G102"           -> "expired-delete"
      [] from = "G105" /\ to = "G106"           -> "expired-enqueue"
      [] from = "G105" /\ to = "G113"           -> "expired-refreshing"
      [] from = "G88"  /\ to = "done"           -> "miss-noloader"
      [] from = "G118" /\ to = "done"           -> "miss-error"
      [] from = "G118" /\ to = "G129"           -> "miss-loaded"
      [] OTHER                                  -> old

Observe ==
    hist' = [
        lastSet |-> [k \in Keys |->
            IF \E t \in Threads : Called(t) /\ th'[t].op = "Set" /\ th'[t].key = k
            THEN None
            ELSE IF \E t \in Threads : Returned(t) /\ th[t].op = "Set" /\ th[t].key = k
            THEN LET t == CHOOSE x \in Threads :
                              Returned(x) /\ th[x].op = "Set" /\ th[x].key = k
                 IN  [val |-> th[t].val, at |-> th[t].now]
            ELSE hist.lastSet[k]],
        seen |-> [k \in Keys |->
            hist.seen[k] \/ \E t \in Threads : Called(t) /\ th'[t].key = k],
        exp |-> [t \in Threads |->
            IF Called(t) /\ th'[t].op = "Get" THEN hist.lastSet[th'[t].key]
            ELSE IF Began(t) THEN None
            ELSE hist.exp[t]],
        first |-> [t \in Threads |->
            IF Called(t) THEN ~hist.seen[th'[t].key]
            ELSE IF Began(t) THEN FALSE
            ELSE hist.first[t]],
        path |-> [t \in Threads |->
            IF Began(t) THEN "none" ELSE PathStep(th[t].pc, th'[t].pc, hist.path[t])],
        held |-> [t \in Threads |->
            IF Began(t) THEN "none"
            ELSE IF th[t].pc = "G88" /\ th'[t].pc = "G92" THEN heap[th'[t].entry].value
            ELSE hist.held[t]],
        afterDel |-> [t \in Threads |->
            IF Began(t)
            THEN th[t].op = "Get" /\ th'[t].op = "Get" /\ th[t].key = th'[t].key
                 /\ hist.path[t] = "expired-delete"
            ELSE hist.afterDel[t]],
        picked |-> [w \in Workers |->
            IF wk[w].pc = "W184" /\ wk'[w].pc = "W186" THEN clock
            ELSE IF wk'[w].pc \in {"W184", "returned", "idle"} THEN ZeroTime
            ELSE hist.picked[w]],
        missed |-> [w \in Workers |->
            hist.missed[w] \/ (wk[w].pc = "W186" /\ wk'[w].pc = "W184")],
        drained |-> [w \in Workers |->
            hist.drained[w] \/ (closed /\ wk[w].pc = "W184" /\ wk'[w].pc = "W186")],
        silent |-> [t \in Threads |->
            IF th'[t].pc \in {"idle", "done", "panic"} THEN "none"
            ELSE IF th[t].pc \in {"G133", "S154"} /\ th'[t].pc \notin {"G133s", "S154s"}
            THEN "replaced"
            ELSE IF th[t].pc \in {"G93", "G102"} /\ th'[t].pc \notin {"G93s", "G102s"}
            THEN "absent"
            ELSE hist.silent[t]]]

InitHist ==
    hist = [lastSet |-> [k \in Keys |-> None], seen |-> [k \in Keys |-> FALSE],
            exp |-> [t \in Threads |-> None], first |-> [t \in Threads |-> FALSE],
            path |-> [t \in Threads |-> "none"], held |-> [t \in Threads |-> "none"],
            afterDel |-> [t \in Threads |-> FALSE],
            picked |-> [w \in Workers |-> ZeroTime],
            missed |-> [w \in Workers |-> FALSE],
            drained |-> [w \in Workers |-> FALSE],
            silent |-> [t \in Threads |-> "none"]]

\* ---------------------------------------------------------------- NewCache
\* the pool size NewCache clamps to when the caller asks for 8 or fewer
EvictionPoolSize == 8

\* the Params a caller may pass, after NewCache's clamping
\* (LoaderFails tells whether the Loader handed in is one whose Load can fail)
ParamSpace ==
    [GracefulRefresh : BOOLEAN, HasLoader : BOOLEAN, LoaderFails : {TRUE},
     MaximumEntries : {1, 2}, ExpireAfterWrite : {0, 1, 2}, EvictionSampleSize : {2}]

\* what this.Loader.Load(key) may return
LoadOutcomes == IF params.LoaderFails THEN LoadVals \cup {LoadErr} ELSE LoadVals

\* the goroutine of cmap.All before All is called: no shard lock is held
\*   shardOf   m.hash, the shard of each key     shard    the shard it is at
\*   keyVals   the pairs it has still to send    count    the pairs it has sent
\*   locked    the shard whose read lock it holds between two steps, 0 for none
\*   copied    the pairs it copied from the shard it is at (read by the properties)
NoIter ==
    [pc |-> "idle", shardOf |-> [k \in Keys |-> 1], shard |-> 0, keyVals |-> <<>>,
     count |-> 0, locked |-> 0, copied |-> {}]

\* the cache NewCache returns: an empty map, an empty pool, the refresh queue
\* made when GracefulRefresh is set, and one RunRefresh goroutine started then
NewCache(p) ==
    /\ params = p
    /\ clock = 1
    /\ entries = [k \in Keys |-> NULL]
    /\ heap = [a \in Addrs |-> cacheEntry]
    /\ Count = 0
    /\ CountChange = <<>>
    /\ refreshes = <<>>
    /\ closed = FALSE
    /\ evictionPool = [i \in 1 .. EvictionPoolSize |-> evictableEntry]
    /\ evictionPoolTop = 0
    /\ th = [t \in Threads |-> Idle]
    /\ wk = [w \in Workers |->
                IF w = "w1" /\ p.GracefulRefresh THEN [WIdle EXCEPT !.pc = "W176"]
                ELSE WIdle]
    /\ crashed = FALSE
    /\ iter = NoIter

\* what every step of a call leaves alone unless it says otherwise
Quiet == UNCHANGED <<params, clock, wk, crashed, calls>>
NoMap == UNCHANGED <<entries, Count, CountChange>>
NoPool == UNCHANGED <<evictionPool, evictionPoolTop>>
NoQueue == UNCHANGED <<refreshes, closed>>

\* a run-time panic in goroutine t
Panic(t) ==
    /\ crashed' = TRUE
    /\ th' = [th EXCEPT ![t].pc = "panic"]

\* shard.lock.Lock() of the key's shard succeeds: no reader holds the lock
Unlocked(key) == iter.locked # iter.shardOf[key]

\* cmap.Del's map update, under the shard lock
cmapDel(key) == Unlocked(key) /\ entries' = [entries EXCEPT ![key] = NULL]

\* cmap.Set's map update, under the shard lock
cmapSet(key, e) == Unlocked(key) /\ entries' = [entries EXCEPT ![key] = e]

\* m.CountChange <- delta: blocks while the buffer is full
SendCount(delta) ==
    /\ Len(CountChange) < CountCap
    /\ CountChange' = Append(CountChange, delta)

\* ---------------------------------------------------------------- cache.Get
\* Get is called: now := time.Now().UTC()
GetCall(t, k) ==
    /\ ~crashed /\ th[t].pc \in {"idle", "done"} /\ calls > 0
    /\ th' = [th EXCEPT ![t] = [Idle EXCEPT !.pc = "G88", !.op = "Get", !.key = k,
                                            !.now = clock]]
    /\ calls' = calls - 1
    /\ UNCHANGED <<params, clock, wk, crashed, heap>>
    /\ NoMap /\ NoPool /\ NoQueue
    /\ UNCHANGED iter
    /\ Observe

\* entry, exists := this.entries.Get(key); the miss without a Loader returns here
Get88(t) ==
    /\ ~crashed /\ th[t].pc = "G88"
    /\ LET e == cmapGet(th[t].key) IN
        th' = IF e # NULL THEN [th EXCEPT ![t].entry = e, ![t].pc = "G92"]
              ELSE IF params.HasLoader THEN Goto(t, "G118")
              ELSE Return(t, NilVal, NoErr)
    /\ Quiet /\ NoMap /\ NoPool /\ NoQueue /\ UNCHANGED heap
    /\ UNCHANGED iter
    /\ Observe

\* if entry.refreshError != nil
Get92(t) ==
    /\ ~crashed /\ th[t].pc = "G92"
    /\ th' = Goto(t, IF heap[th[t].entry].refreshError # NoErr THEN "G93" ELSE "G98")
    /\ Quiet /\ NoMap /\ NoPool /\ NoQueue /\ UNCHANGED heap
    /\ UNCHANGED iter
    /\ Observe

\* this.entries.Del(key), the map update
Get93(t) ==
    /\ ~crashed /\ th[t].pc = "G93"
    /\ UNCHANGED iter
    /\ cmapDel(th[t].key)
    /\ th' = Goto(t, IF entries[th[t].key] # NULL THEN "G93s" ELSE "G94")
    /\ Quiet /\ NoPool /\ NoQueue /\ UNCHANGED <<Count, CountChange>>
    /\ Collect(heap)
    /\ Observe

\* this.entries.Del(key), the count delta
Get93s(t) ==
    /\ ~crashed /\ th[t].pc = "G93s"
    /\ SendCount(-1)
    /\ th' = Goto(t, "G94")
    /\ Quiet /\ NoPool /\ NoQueue /\ UNCHANGED <<entries, Count, heap>>
    /\ UNCHANGED iter
    /\ Observe

\* return entry.value, entry.refreshError: the read of value
Get94(t) ==
    /\ ~crashed /\ th[t].pc = "G94"
    /\ th' = [th EXCEPT ![t].rvalue = heap[th[t].entry].value, ![t].pc = "G94e"]
    /\ Quiet /\ NoMap /\ NoPool /\ NoQueue /\ UNCHANGED heap
    /\ UNCHANGED iter
    /\ Observe

\* return entry.value, entry.refreshError: the read of refreshError
Get94e(t) ==
    /\ ~crashed /\ th[t].pc = "G94e"
    /\ UNCHANGED iter
    /\ th' = Return(t, th[t].rvalue, heap[th[t].entry].refreshError)
    /\ Quiet /\ NoMap /\ NoPool /\ NoQueue
    /\ Collect(heap)
    /\ Observe
\* Get98 with the entry stale already at its expiration time
Get98Inclusive(t) ==
    /\ ~crashed /\ th[t].pc = "G98"
    /\ th' = Goto(t, IF ~After(heap[th[t].entry].expiration, th[t].now)
                     THEN (IF ~params.GracefulRefresh THEN "G102" ELSE "G105")
                     ELSE "G113")
    /\ Quiet /\ NoMap /\ NoPool /\ NoQueue /\ UNCHANGED heap
    /\ UNCHANGED iter
    /\ Observe

\* if entry.expiration.Before(now), and the choice on this.refreshes == nil
Get98(t) ==
    /\ ~crashed /\ th[t].pc = "G98"
    /\ th' = Goto(t, IF Before(heap[th[t].entry].expiration, th[t].now)
                     THEN (IF ~params.GracefulRefresh THEN "G102" ELSE "G105")
                     ELSE "G113")
    /\ Quiet /\ NoMap /\ NoPool /\ NoQueue /\ UNCHANGED heap
    /\ UNCHANGED iter
    /\ Observe
\* Get102 without the deletion
Get102Keep(t) ==
    /\ ~crashed /\ th[t].pc = "G102"
    /\ th' = Goto(t, "G113")
    /\ Quiet /\ NoMap /\ NoPool /\ NoQueue /\ UNCHANGED heap
    /\ UNCHANGED iter
    /\ Observe

\* refresh not available: this.entries.Del(key), the map update
Get102(t) ==
    /\ ~crashed /\ th[t].pc = "G102"
    /\ UNCHANGED iter
    /\ cmapDel(th[t].key)
    /\ th' = Goto(t, IF entries[th[t].key] # NULL THEN "G102s" ELSE "G113")
    /\ Quiet /\ NoPool /\ NoQueue /\ UNCHANGED <<Count, CountChange>>
    /\ Collect(heap)
    /\ Observe

\* this.entries.Del(key), the count delta
Get102s(t) ==
    /\ ~crashed /\ th[t].pc = "G102s"
    /\ SendCount(-1)
    /\ th' = Goto(t, "G113")
    /\ Quiet /\ NoPool /\ NoQueue /\ UNCHANGED <<entries, Count, heap>>
    /\ UNCHANGED iter
    /\ Observe

\* if !entry.refreshing
Get105(t) ==
    /\ ~crashed /\ th[t].pc = "G105"
    /\ th' = Goto(t, IF ~heap[th[t].entry].refreshing THEN "G106" ELSE "G113")
    /\ Quiet /\ NoMap /\ NoPool /\ NoQueue /\ UNCHANGED heap
    /\ UNCHANGED iter
    /\ Observe

\* entry.refreshing = true
Get106(t) ==
    /\ ~crashed /\ th[t].pc = "G106"
    /\ UNCHANGED iter
    /\ th' = Goto(t, "G107")
    /\ Quiet /\ NoMap /\ NoPool /\ NoQueue
    /\ Collect([heap EXCEPT ![th[t].entry].refreshing = TRUE])
    /\ Observe
\* Get107 on a queue that takes one key at a time
Get107Single(t) ==
    /\ ~crashed /\ th[t].pc = "G107"
    /\ IF closed
       THEN Panic(t) /\ UNCHANGED refreshes
       ELSE /\ refreshes = <<>>
            /\ refreshes' = Append(refreshes, th[t].key)
            /\ th' = Goto(t, "G113")
            /\ UNCHANGED crashed
    /\ UNCHANGED <<params, clock, wk, calls, closed, heap>>
    /\ NoMap /\ NoPool
    /\ UNCHANGED iter
    /\ Observe

\* this.refreshes <- key: panics on a closed channel, blocks while the buffer is full
Get107(t) ==
    /\ ~crashed /\ th[t].pc = "G107"
    /\ IF closed
       THEN Panic(t) /\ UNCHANGED refreshes
       ELSE /\ Len(refreshes) < RefreshCap
            /\ refreshes' = Append(refreshes, th[t].key)
            /\ th' = Goto(t, "G113")
            /\ UNCHANGED crashed
    /\ UNCHANGED <<params, clock, wk, calls, closed, heap>>
    /\ NoMap /\ NoPool
    /\ UNCHANGED iter
    /\ Observe

\* return entry.value, entry.refreshError: the read of value
Get113(t) ==
    /\ ~crashed /\ th[t].pc = "G113"
    /\ th' = [th EXCEPT ![t].rvalue = heap[th[t].entry].value, ![t].pc = "G113e"]
    /\ Quiet /\ NoMap /\ NoPool /\ NoQueue /\ UNCHANGED heap
    /\ UNCHANGED iter
    /\ Observe

\* return entry.value, entry.refreshError: the read of refreshError
Get113e(t) ==
    /\ ~crashed /\ th[t].pc = "G113e"
    /\ UNCHANGED iter
    /\ th' = Return(t, th[t].rvalue, heap[th[t].entry].refreshError)
    /\ Quiet /\ NoMap /\ NoPool /\ NoQueue
    /\ Collect(heap)
    /\ Observe
\* Get118 with the Loader's error dropped
Get118Swallow(t) ==
    /\ ~crashed /\ th[t].pc = "G118"
    /\ UNCHANGED iter
    /\ Quiet /\ NoMap /\ NoPool /\ NoQueue
    /\ \E r \in LoadOutcomes :
        IF r = LoadErr
        THEN /\ th' = Return(t, NilVal, NoErr)
             /\ Collect(heap)
        ELSE LET a == NewAddr IN
             /\ th' = [th EXCEPT ![t].entry = a, ![t].val = r, ![t].pc = "G129"]
             /\ Collect([heap EXCEPT ![a] =
                    updateTimestamps([cacheEntry EXCEPT !.value = r],
                                     params.ExpireAfterWrite)])
    /\ Observe

\* value, err := this.Loader.Load(key); on success entry = &cacheEntry{value: value}
\* and entry.updateTimestamps(this.ExpireAfterWrite)
Get118(t) ==
    /\ ~crashed /\ th[t].pc = "G118"
    /\ UNCHANGED iter
    /\ Quiet /\ NoMap /\ NoPool /\ NoQueue
    /\ \E r \in LoadOutcomes :
        IF r = LoadErr
        THEN /\ th' = Return(t, ZeroVal, LoadErr)
             /\ Collect(heap)
        ELSE LET a == NewAddr IN
             /\ th' = [th EXCEPT ![t].entry = a, ![t].val = r, ![t].pc = "G129"]
             /\ Collect([heap EXCEPT ![a] =
                    updateTimestamps([cacheEntry EXCEPT !.value = r],
                                     params.ExpireAfterWrite)])
    /\ Observe

\* if uint32(this.entries.Len()) >= this.MaximumEntries
Get129(t) ==
    /\ ~crashed /\ th[t].pc = "G129"
    /\ th' = Goto(t, IF cmapLen >= params.MaximumEntries THEN "G130" ELSE "G133")
    /\ Quiet /\ NoMap /\ NoPool /\ NoQueue /\ UNCHANGED heap
    /\ UNCHANGED iter
    /\ Observe

\* ---------------------------------------------------------------- removeLRU
\* the sampling pass: for k, v := range this.entries, in the order ord, with i
\* samples taken before.  A full pool is scanned for the first slot used later
\* than the sample; reading the lastUsed of an empty slot panics.
RECURSIVE FirstAfter(_, _, _)
FirstAfter(pool, z, sample) ==
    IF z > Len(pool) THEN [panic |-> FALSE, z |-> 0]
    ELSE IF pool[z].value = NULL \/ sample.value = NULL THEN [panic |-> TRUE, z |-> z]
    ELSE IF After(heap[pool[z].value].lastUsed, heap[sample.value].lastUsed)
         THEN [panic |-> FALSE, z |-> z]
    ELSE FirstAfter(pool, z + 1, sample)

RECURSIVE SamplePass(_, _, _, _)
SamplePass(pool, top, ord, i) ==
    IF ord = <<>> THEN [panic |-> FALSE, pool |-> pool, top |-> top]
    ELSE LET sample == [key |-> Head(ord), value |-> entries[Head(ord)]]
             room   == top < Len(pool)
             hit    == FirstAfter(pool, 1, sample)
             pool2  == IF room THEN [pool EXCEPT ![top + 1] = sample]
                       ELSE IF hit.z # 0 /\ ~hit.panic
                            THEN [pool EXCEPT ![hit.z] = sample]
                       ELSE pool
             top2   == IF room THEN top + 1 ELSE top
         IN  IF room /\ top < 0 THEN [panic |-> TRUE, pool |-> pool, top |-> top]
             ELSE IF ~room /\ hit.panic THEN [panic |-> TRUE, pool |-> pool, top |-> top]
             ELSE IF i + 1 >= params.EvictionSampleSize
                  THEN [panic |-> FALSE, pool |-> pool2, top |-> top2]
             ELSE SamplePass(pool2, top2, Tail(ord), i + 1)

\* find oldest entry in pool: oldest starts as evictableEntry{}, whose value is nil,
\* so oldest.value.lastUsed is read through a nil pointer
RECURSIVE FindOldest(_, _, _, _)
FindOldest(pool, z, oldest, removableIdx) ==
    IF z > Len(pool) THEN [panic |-> FALSE, oldest |-> oldest, idx |-> removableIdx]
    ELSE IF pool[z].value = NULL \/ oldest.value = NULL
         THEN [panic |-> TRUE, oldest |-> oldest, idx |-> removableIdx]
    ELSE IF Before(heap[pool[z].value].lastUsed, heap[oldest.value].lastUsed)
         THEN FindOldest(pool, z + 1, pool[z], z)
    ELSE FindOldest(pool, z + 1, oldest, removableIdx)

\* the orders in which range may yield the keys of the map
RangeOrders ==
    LET present == {k \in Keys : entries[k] # NULL}
        n == Cardinality(present)
    IN  {o \in [1 .. n -> present] : \A i, j \in 1 .. n : i # j => o[i] # o[j]}

\* removeLRU, whole: the map, the pool and the pool top it leaves, and whether it
\* panicked on the way (the pool then keeps what the sampling pass wrote)
removeLRU(ord) ==
    LET s == SamplePass(evictionPool, evictionPoolTop, ord, 0)
        f == FindOldest(s.pool, 1, evictableEntry, 0)
        oob == s.top >= Len(s.pool)
    IN  IF s.panic \/ f.panic \/ oob
        THEN [panic |-> TRUE, pool |-> s.pool, top |-> s.top, victim |-> ""]
        ELSE [panic |-> FALSE,
              pool |-> [s.pool EXCEPT ![f.idx + 1] = s.pool[s.top + 1]],
              top |-> s.top - 1, victim |-> f.oldest.key]

\* a caller at label `at` runs this.removeLRU() and goes on as `after`
Evict(t, at, after) ==
    /\ ~crashed /\ th[t].pc = at
    /\ UNCHANGED iter
    /\ \E ord \in RangeOrders :
        LET r == removeLRU(ord) IN
        /\ evictionPool' = r.pool
        /\ evictionPoolTop' = r.top
        /\ IF r.panic
           THEN /\ Panic(t)
                /\ UNCHANGED <<entries, CountChange>>
           ELSE /\ th' = after
                /\ UNCHANGED crashed
                /\ entries' = [k \in Keys |-> IF k = r.victim THEN NULL ELSE entries[k]]
                /\ CountChange' = CountChange
    /\ UNCHANGED <<params, clock, wk, calls, Count>>
    /\ NoQueue
    /\ Collect(heap)
    /\ Observe

\* this.removeLRU() in Get
Get130(t) == Evict(t, "G130", Goto(t, "G133"))

\* Get133 sending a count delta whether or not the key was there
Get133Always(t) ==
    /\ ~crashed /\ th[t].pc = "G133"
    /\ UNCHANGED iter
    /\ cmapSet(th[t].key, th[t].entry)
    /\ th' = Goto(t, "G133s")
    /\ Quiet /\ NoPool /\ NoQueue /\ UNCHANGED <<Count, CountChange>>
    /\ Collect(heap)
    /\ Observe

\* this.entries.Set(key, entry), the map update; return value, nil when the key
\* was there
Get133(t) ==
    /\ ~crashed /\ th[t].pc = "G133"
    /\ UNCHANGED iter
    /\ cmapSet(th[t].key, th[t].entry)
    /\ th' = IF entries[th[t].key] # NULL THEN Return(t, th[t].val, NoErr)
             ELSE Goto(t, "G133s")
    /\ Quiet /\ NoPool /\ NoQueue /\ UNCHANGED <<Count, CountChange>>
    /\ Collect(heap)
    /\ Observe

\* this.entries.Set(key, entry), the count delta; return value, nil
Get133s(t) ==
    /\ ~crashed /\ th[t].pc = "G133s"
    /\ UNCHANGED iter
    /\ SendCount(1)
    /\ th' = Return(t, th[t].val, NoErr)
    /\ Quiet /\ NoPool /\ NoQueue /\ UNCHANGED <<entries, Count>>
    /\ Collect(heap)
    /\ Observe

\* ---------------------------------------------------------------- cache.Set
\* Set is called: now := time.Now().UTC()
SetCall(t, k, v) ==
    /\ ~crashed /\ th[t].pc \in {"idle", "done"} /\ calls > 0
    /\ th' = [th EXCEPT ![t] = [Idle EXCEPT !.pc = "S144", !.op = "Set", !.key = k,
                                            !.val = v, !.now = clock]]
    /\ calls' = calls - 1
    /\ UNCHANGED <<params, clock, wk, crashed, heap>>
    /\ NoMap /\ NoPool /\ NoQueue
    /\ UNCHANGED iter
    /\ Observe

\* oldEntry, found := this.entries.Get(key); if found && oldEntry != nil
Set144(t) ==
    /\ ~crashed /\ th[t].pc = "S144"
    /\ LET e == cmapGet(th[t].key) IN
        th' = IF e # NULL THEN [th EXCEPT ![t].entry = e, ![t].pc = "S146"]
              ELSE Goto(t, "S154")
    /\ Quiet /\ NoMap /\ NoPool /\ NoQueue /\ UNCHANGED heap
    /\ UNCHANGED iter
    /\ Observe

\* oldEntry.value = val
Set146(t) ==
    /\ ~crashed /\ th[t].pc = "S146"
    /\ UNCHANGED iter
    /\ th' = Goto(t, "S147")
    /\ Quiet /\ NoMap /\ NoPool /\ NoQueue
    /\ Collect([heap EXCEPT ![th[t].entry].value = th[t].val])
    /\ Observe

\* oldEntry.expiration = now.Add(this.Params.ExpireAfterWrite)
Set147(t) ==
    /\ ~crashed /\ th[t].pc = "S147"
    /\ UNCHANGED iter
    /\ th' = Goto(t, "S148")
    /\ Quiet /\ NoMap /\ NoPool /\ NoQueue
    /\ Collect([heap EXCEPT ![th[t].entry].expiration =
                                th[t].now + params.ExpireAfterWrite])
    /\ Observe

\* oldEntry.lastUsed = now
Set148(t) ==
    /\ ~crashed /\ th[t].pc = "S148"
    /\ UNCHANGED iter
    /\ th' = Goto(t, "S149")
    /\ Quiet /\ NoMap /\ NoPool /\ NoQueue
    /\ Collect([heap EXCEPT ![th[t].entry].lastUsed = th[t].now])
    /\ Observe

\* oldEntry.refreshing = false
Set149(t) ==
    /\ ~crashed /\ th[t].pc = "S149"
    /\ UNCHANGED iter
    /\ th' = Goto(t, "S150")
    /\ Quiet /\ NoMap /\ NoPool /\ NoQueue
    /\ Collect([heap EXCEPT ![th[t].entry].refreshing = FALSE])
    /\ Observe

\* oldEntry.refreshError = nil; return nil
Set150(t) ==
    /\ ~crashed /\ th[t].pc = "S150"
    /\ UNCHANGED iter
    /\ th' = Return(t, NilVal, NoErr)
    /\ Quiet /\ NoMap /\ NoPool /\ NoQueue
    /\ Collect([heap EXCEPT ![th[t].entry].refreshError = NoErr])
    /\ Observe

\* this.entries.Set(key, &cacheEntry{...}), the map update
Set154(t) ==
    /\ ~crashed /\ th[t].pc = "S154"
    /\ UNCHANGED iter
    /\ LET a == NewAddr IN
        /\ cmapSet(th[t].key, a)
        /\ th' = Goto(t, IF entries[th[t].key] # NULL THEN "S163" ELSE "S154s")
        /\ Quiet /\ NoPool /\ NoQueue /\ UNCHANGED <<Count, CountChange>>
        /\ Collect([heap EXCEPT ![a] =
                [value |-> th[t].val,
                 expiration |-> th[t].now + params.ExpireAfterWrite,
                 lastUsed |-> th[t].now, refreshing |-> FALSE, refreshError |-> NoErr]])
    /\ Observe

\* this.entries.Set(key, &cacheEntry{...}), the count delta
Set154s(t) ==
    /\ ~crashed /\ th[t].pc = "S154s"
    /\ SendCount(1)
    /\ th' = Goto(t, "S163")
    /\ Quiet /\ NoPool /\ NoQueue /\ UNCHANGED <<entries, Count, heap>>
    /\ UNCHANGED iter
    /\ Observe

\* if uint32(this.entries.Len()) >= this.MaximumEntries; return nil when it is not
Set163(t) ==
    /\ ~crashed /\ th[t].pc = "S163"
    /\ th' = IF cmapLen >= params.MaximumEntries THEN Goto(t, "S164")
             ELSE Return(t, NilVal, NoErr)
    /\ Quiet /\ NoMap /\ NoPool /\ NoQueue /\ UNCHANGED heap
    /\ UNCHANGED iter
    /\ Observe

\* this.removeLRU() in Set; return nil
Set164(t) == Evict(t, "S164", Return(t, NilVal, NoErr))

\* ---------------------------------------------------------------- StopRefresh
\* close(this.refreshes): closing a nil or a closed channel panics
StopRefresh(t) ==
    /\ ~crashed /\ th[t].pc \in {"idle", "done"} /\ calls > 0
    /\ UNCHANGED iter
    /\ calls' = calls - 1
    /\ IF ~params.GracefulRefresh \/ closed
       THEN /\ crashed' = TRUE
            /\ th' = [th EXCEPT ![t] = [Idle EXCEPT !.pc = "panic", !.op = "StopRefresh"]]
            /\ UNCHANGED closed
       ELSE /\ closed' = TRUE
            /\ th' = [th EXCEPT ![t] = [Idle EXCEPT !.pc = "done", !.op = "StopRefresh"]]
            /\ UNCHANGED crashed
    /\ UNCHANGED <<params, clock, wk, refreshes>>
    /\ NoMap /\ NoPool
    /\ Collect(heap)
    /\ Observe

\* ---------------------------------------------------------------- RunRefresh
WQuiet == UNCHANGED <<params, clock, th, crashed, calls>>

\* a goroutine calls RunRefresh
RunRefresh(w) ==
    /\ ~crashed /\ wk[w].pc = "idle"
    /\ wk' = [wk EXCEPT ![w].pc = "W176"]
    /\ WQuiet /\ NoMap /\ NoPool /\ NoQueue /\ UNCHANGED heap
    /\ UNCHANGED iter
    /\ Observe

\* Run176 with the two tests in the other order
Run176LoaderFirst(w) ==
    /\ ~crashed /\ wk[w].pc = "W176"
    /\ wk' = IF ~params.HasLoader
             THEN [wk EXCEPT ![w].pc = "returned", ![w].ret = refreshErrNoLoader]
             ELSE IF ~params.GracefulRefresh
             THEN [wk EXCEPT ![w].pc = "returned", ![w].ret = refreshErrNotEnabled]
             ELSE [wk EXCEPT ![w].pc = "W184"]
    /\ WQuiet /\ NoMap /\ NoPool /\ NoQueue /\ UNCHANGED heap
    /\ UNCHANGED iter
    /\ Observe

\* if this.refreshes == nil; if this.Loader == nil
Run176(w) ==
    /\ ~crashed /\ wk[w].pc = "W176"
    /\ wk' = IF ~params.GracefulRefresh
             THEN [wk EXCEPT ![w].pc = "returned", ![w].ret = refreshErrNotEnabled]
             ELSE IF ~params.HasLoader
             THEN [wk EXCEPT ![w].pc = "returned", ![w].ret = refreshErrNoLoader]
             ELSE [wk EXCEPT ![w].pc = "W184"]
    /\ WQuiet /\ NoMap /\ NoPool /\ NoQueue /\ UNCHANGED heap
    /\ UNCHANGED iter
    /\ Observe

\* Run184 returning as soon as the channel is closed
Run184Abandon(w) ==
    /\ ~crashed /\ wk[w].pc = "W184"
    /\ IF closed
       THEN /\ wk' = [wk EXCEPT ![w].pc = "returned", ![w].ret = NoErr]
            /\ UNCHANGED refreshes
       ELSE /\ refreshes # <<>>
            /\ wk' = [wk EXCEPT ![w].pc = "W186", ![w].key = Head(refreshes)]
            /\ refreshes' = Tail(refreshes)
    /\ WQuiet /\ NoMap /\ NoPool /\ UNCHANGED <<closed, heap>>
    /\ UNCHANGED iter
    /\ Observe

\* for key := range this.refreshes: the next key, or return nil once the channel
\* is closed and drained; blocks while it is open and empty
Run184(w) ==
    /\ ~crashed /\ wk[w].pc = "W184"
    /\ IF refreshes # <<>>
       THEN /\ wk' = [wk EXCEPT ![w].pc = "W186", ![w].key = Head(refreshes)]
            /\ refreshes' = Tail(refreshes)
       ELSE /\ closed
            /\ wk' = [wk EXCEPT ![w].pc = "returned", ![w].ret = NoErr]
            /\ UNCHANGED refreshes
    /\ WQuiet /\ NoMap /\ NoPool /\ UNCHANGED <<closed, heap>>
    /\ UNCHANGED iter
    /\ Observe

\* Run186 reading the entry it did not find
Run186Deref(w) ==
    /\ ~crashed /\ wk[w].pc = "W186"
    /\ LET e == cmapGet(wk[w].key) IN
        /\ wk' = IF e = NULL THEN [wk EXCEPT ![w].pc = "panic"]
                 ELSE [wk EXCEPT ![w].entry = e, ![w].pc = "W196"]
        /\ crashed' = (e = NULL)
    /\ UNCHANGED <<params, clock, th, calls>>
    /\ NoMap /\ NoPool /\ NoQueue /\ UNCHANGED heap
    /\ UNCHANGED iter
    /\ Observe

\* entry, found := this.entries.Get(key); if entry == nil { continue }
Run186(w) ==
    /\ ~crashed /\ wk[w].pc = "W186"
    /\ LET e == cmapGet(wk[w].key) IN
        wk' = IF e = NULL THEN [wk EXCEPT ![w] = [WIdle EXCEPT !.pc = "W184"]]
              ELSE [wk EXCEPT ![w].entry = e, ![w].pc = "W196"]
    /\ WQuiet /\ NoMap /\ NoPool /\ NoQueue /\ UNCHANGED heap
    /\ UNCHANGED iter
    /\ Observe

\* newValue, err := this.Loader.Load(key)
Run196(w) ==
    /\ ~crashed /\ wk[w].pc = "W196"
    /\ \E r \in LoadOutcomes :
        wk' = IF r = LoadErr THEN [wk EXCEPT ![w].pc = "W198"]
              ELSE [wk EXCEPT ![w].pc = "W203", ![w].val = r]
    /\ WQuiet /\ NoMap /\ NoPool /\ NoQueue /\ UNCHANGED heap
    /\ UNCHANGED iter
    /\ Observe

\* entry.refreshError = err; continue
Run198(w) ==
    /\ ~crashed /\ wk[w].pc = "W198"
    /\ UNCHANGED iter
    /\ wk' = [wk EXCEPT ![w] = [WIdle EXCEPT !.pc = "W184"]]
    /\ WQuiet /\ NoMap /\ NoPool /\ NoQueue
    /\ Collect([heap EXCEPT ![wk[w].entry].refreshError = LoadErr])
    /\ Observe

\* entry.value = newValue
Run203(w) ==
    /\ ~crashed /\ wk[w].pc = "W203"
    /\ UNCHANGED iter
    /\ wk' = [wk EXCEPT ![w].pc = "W204"]
    /\ WQuiet /\ NoMap /\ NoPool /\ NoQueue
    /\ Collect([heap EXCEPT ![wk[w].entry].value = wk[w].val])
    /\ Observe

\* Run204 with the flag left set
Run204Keep(w) ==
    /\ ~crashed /\ wk[w].pc = "W204"
    /\ wk' = [wk EXCEPT ![w].pc = "W205"]
    /\ WQuiet /\ NoMap /\ NoPool /\ NoQueue /\ UNCHANGED heap
    /\ UNCHANGED iter
    /\ Observe

\* entry.refreshing = false
Run204(w) ==
    /\ ~crashed /\ wk[w].pc = "W204"
    /\ UNCHANGED iter
    /\ wk' = [wk EXCEPT ![w].pc = "W205"]
    /\ WQuiet /\ NoMap /\ NoPool /\ NoQueue
    /\ Collect([heap EXCEPT ![wk[w].entry].refreshing = FALSE])
    /\ Observe

\* entry.refreshError = nil, and around the loop
Run205(w) ==
    /\ ~crashed /\ wk[w].pc = "W205"
    /\ UNCHANGED iter
    /\ wk' = [wk EXCEPT ![w] = [WIdle EXCEPT !.pc = "W184"]]
    /\ WQuiet /\ NoMap /\ NoPool /\ NoQueue
    /\ Collect([heap EXCEPT ![wk[w].entry].refreshError = NoErr])
    /\ Observe

\* ---------------------------------------------------------------- cmap.All
\* the orders in which a range over a Go map may visit the pairs in S
RangeOf(S) ==
    {q \in [1 .. Cardinality(S) -> S] : \A i, j \in 1 .. Cardinality(S) : i # j => q[i] # q[j]}

\* the pairs of one shard
ShardPairs(sh, shard) ==
    {[Key |-> k, Val |-> entries[k]] : k \in {x \in Keys : entries[x] # NULL /\ sh[x] = shard}}

\* for kv := range m.All(): All makes the channel and starts its goroutine;
\* m.hash may put the keys in any shards (they are read from here on only), and
\* since the keys are interchangeable, "a" in no later a shard than "b"
All113(t) ==
    /\ ~crashed /\ th[t].pc \in {"idle", "done"} /\ iter.pc = "idle"
    /\ \E sh \in {h \in [Keys -> 1 .. numShards] : h["a"] <= h["b"]} :
           iter' = [NoIter EXCEPT !.pc = "A116", !.shardOf = sh, !.shard = 1]
    /\ th' = [th EXCEPT ![t] = [Idle EXCEPT !.pc = "A312", !.op = "All"]]
    /\ Quiet /\ NoMap /\ NoPool /\ NoQueue /\ UNCHANGED heap
    /\ Observe

\* All's goroutine, a lock that is held on past the copy
All118Holding ==
    /\ ~crashed /\ iter.pc = "A116" /\ iter.shard <= numShards
    /\ \E q \in RangeOf(ShardPairs(iter.shardOf, iter.shard)) :
           iter' = [iter EXCEPT !.pc = "A125", !.keyVals = q, !.locked = iter.shard,
                                !.copied = ShardPairs(iter.shardOf, iter.shard)]
    /\ UNCHANGED <<th, heap>>
    /\ Quiet /\ NoMap /\ NoPool /\ NoQueue
    /\ Observe

\* All's goroutine at one shard: RLock, the copy of the shard's pairs, RUnlock
All118 ==
    /\ ~crashed /\ iter.pc = "A116" /\ iter.shard <= numShards
    /\ \E q \in RangeOf(ShardPairs(iter.shardOf, iter.shard)) :
           iter' = [iter EXCEPT !.pc = "A125", !.keyVals = q, !.locked = 0,
                                !.copied = ShardPairs(iter.shardOf, iter.shard)]
    /\ UNCHANGED <<th, heap>>
    /\ Quiet /\ NoMap /\ NoPool /\ NoQueue
    /\ Observe

\* iter <- keyVal meets the consumer's receive: the channel has no buffer
All127(t) ==
    /\ ~crashed /\ iter.pc = "A125" /\ iter.keyVals # <<>> /\ th[t].pc = "A312"
    /\ iter' = [iter EXCEPT !.keyVals = Tail(@), !.count = @ + 1]
    /\ th' = [th EXCEPT ![t].pc = "A313", ![t].key = Head(iter.keyVals).Key,
                        ![t].entry = Head(iter.keyVals).Val]
    /\ Quiet /\ NoMap /\ NoPool /\ NoQueue /\ UNCHANGED heap
    /\ Observe

\* the shard's pairs are sent: on to the next shard
All125 ==
    /\ ~crashed /\ iter.pc = "A125" /\ iter.keyVals = <<>>
    /\ iter' = [iter EXCEPT !.pc = "A116", !.shard = @ + 1, !.locked = 0, !.copied = {}]
    /\ UNCHANGED <<th, heap>>
    /\ Quiet /\ NoMap /\ NoPool /\ NoQueue
    /\ Observe

\* close(iter) after the last shard
All132 ==
    /\ ~crashed /\ iter.pc = "A116" /\ iter.shard > numShards
    /\ iter' = [iter EXCEPT !.pc = "closed"]
    /\ UNCHANGED <<th, heap>>
    /\ Quiet /\ NoMap /\ NoPool /\ NoQueue
    /\ Observe

\* the consumer's range ends on the closed channel
All312(t) ==
    /\ ~crashed /\ th[t].pc = "A312" /\ iter.pc = "closed"
    /\ th' = Return(t, NilVal, NoErr)
    /\ Quiet /\ NoMap /\ NoPool /\ NoQueue /\ UNCHANGED <<heap, iter>>
    /\ Observe

\* the consumer is done with kv: back to the receive
Next312(t) == [th EXCEPT ![t].pc = "A312", ![t].key = "", ![t].entry = NULL]

\* the consumer's m.Del(kv.Key), the map update under the shard's lock
All313(t) ==
    /\ ~crashed /\ th[t].pc = "A313"
    /\ cmapDel(th[t].key)
    /\ th' = IF entries[th[t].key] # NULL THEN Goto(t, "A313s") ELSE Next312(t)
    /\ Quiet /\ NoPool /\ NoQueue /\ UNCHANGED <<Count, CountChange, iter>>
    /\ Collect(heap)
    /\ Observe

\* the consumer's m.Del(kv.Key), the count delta
All313s(t) ==
    /\ ~crashed /\ th[t].pc = "A313s"
    /\ SendCount(-1)
    /\ th' = Next312(t)
    /\ Quiet /\ NoPool /\ NoQueue /\ UNCHANGED <<entries, Count, iter>>
    /\ Collect(heap)
    /\ Observe

\* a consumer that calls m.Set(kv.Key, kv.Val) instead: the map update under the
\* shard's lock
All313Set(t) ==
    /\ ~crashed /\ th[t].pc = "A313"
    /\ cmapSet(th[t].key, th[t].entry)
    /\ th' = IF entries[th[t].key] = NULL THEN Goto(t, "A313p") ELSE Next312(t)
    /\ Quiet /\ NoPool /\ NoQueue /\ UNCHANGED <<Count, CountChange, iter>>
    /\ Collect(heap)
    /\ Observe

\* a consumer that calls m.Set(kv.Key, kv.Val): the count delta
All313p(t) ==
    /\ ~crashed /\ th[t].pc = "A313p"
    /\ SendCount(1)
    /\ th' = Next312(t)
    /\ Quiet /\ NoPool /\ NoQueue /\ UNCHANGED <<entries, Count, iter>>
    /\ Collect(heap)
    /\ Observe

\* m.Set(key, &cacheEntry{}) called on the map itself: the update under the lock
\* (what the call returns is not kept)
MapSet(t, k) ==
    /\ ~crashed /\ th[t].pc = "idle" /\ calls > 0
    /\ UNCHANGED iter
    /\ LET a == NewAddr IN
        /\ cmapSet(k, a)
        /\ th' = [th EXCEPT ![t] = IF entries[k] # NULL THEN Idle
                                    ELSE [Idle EXCEPT !.pc = "M83"]]
        /\ calls' = calls - 1
        /\ UNCHANGED <<params, clock, wk, crashed, Count, CountChange>>
        /\ NoPool /\ NoQueue
        /\ Collect([heap EXCEPT ![a] = cacheEntry])
    /\ Observe

\* m.Set called on the map itself: the count delta
MapSet83(t) ==
    /\ ~crashed /\ th[t].pc = "M83"
    /\ SendCount(1)
    /\ th' = [th EXCEPT ![t] = Idle]
    /\ Quiet /\ NoPool /\ NoQueue /\ UNCHANGED <<entries, Count, heap, iter>>
    /\ Observe

\* m.Del(key) called on the map itself: the update under the lock
MapDel(t, k) ==
    /\ ~crashed /\ th[t].pc = "idle" /\ calls > 0
    /\ UNCHANGED iter
    /\ cmapDel(k)
    /\ th' = [th EXCEPT ![t] = IF entries[k] # NULL THEN [Idle EXCEPT !.pc = "M99"]
                                ELSE Idle]
    /\ calls' = calls - 1
    /\ UNCHANGED <<params, clock, wk, crashed, Count, CountChange>>
    /\ NoPool /\ NoQueue
    /\ Collect(heap)
    /\ Observe

\* m.Del called on the map itself: the count delta
MapDel99(t) ==
    /\ ~crashed /\ th[t].pc = "M99"
    /\ SendCount(-1)
    /\ th' = [th EXCEPT ![t] = Idle]
    /\ Quiet /\ NoPool /\ NoQueue /\ UNCHANGED <<entries, Count, heap, iter>>
    /\ Observe

\* ---------------------------------------------------------------- the rest
\* cmap.updateCount: m.Count += delta, for the next delta of m.CountChange
updateCount ==
    /\ ~crashed /\ CountChange # <<>>
    /\ Count' = Count + Head(CountChange)
    /\ CountChange' = Tail(CountChange)
    /\ UNCHANGED <<params, clock, entries, heap, th, wk, crashed, calls>>
    /\ NoPool /\ NoQueue
    /\ UNCHANGED iter
    /\ Observe

\* time passes
Tick ==
    /\ ~crashed /\ clock < MaxTime
    /\ clock' = clock + 1
    /\ UNCHANGED <<params, entries, heap, th, wk, crashed, calls>>
    /\ UNCHANGED <<Count, CountChange>> /\ NoPool /\ NoQueue
    /\ UNCHANGED iter
    /\ Observe

\* ---------------------------------------------------------------- specifications
\* a cache built with one of the Params in P, and callers that make n calls
Initial(P, n) == (\E p \in P : NewCache(p)) /\ calls = n /\ InitHist

Init == Initial(ParamSpace, MaxCalls)

\* calls of Get and Set by the callers in T, on the keys in K with the values in V
CallSteps(T, K, V) ==
    \/ \E t \in T, k \in K : GetCall(t, k)
    \/ \E t \in T, k \in K, v \in V : SetCall(t, k, v)

\* Get: the lookup, the hit on an entry and the return
HitSteps(T) ==
    \/ \E t \in T : Get88(t)
    \/ \E t \in T : Get92(t)
    \/ \E t \in T : Get98(t)
    \/ \E t \in T : Get113(t)
    \/ \E t \in T : Get113e(t)

\* Get: the hit on an entry that carries a refresh error
ErrorSteps(T) ==
    \/ \E t \in T : Get93(t)
    \/ \E t \in T : Get93s(t)
    \/ \E t \in T : Get94(t)
    \/ \E t \in T : Get94e(t)

\* Get: the expired entry of a cache without graceful refresh
DeleteSteps(T) ==
    \/ \E t \in T : Get102(t)
    \/ \E t \in T : Get102s(t)

\* Get: the expired entry of a cache with graceful refresh
EnqueueSteps(T) ==
    \/ \E t \in T : Get105(t)
    \/ \E t \in T : Get106(t)
    \/ \E t \in T : Get107(t)

\* Get: the miss, through the Loader
LoadSteps(T) ==
    \/ \E t \in T : Get118(t)
    \/ \E t \in T : Get129(t)
    \/ \E t \in T : Get133(t)
    \/ \E t \in T : Get133s(t)

\* Set, up to the size check
SetSteps(T) ==
    \/ \E t \in T : Set144(t)
    \/ \E t \in T : Set146(t)
    \/ \E t \in T : Set147(t)
    \/ \E t \in T : Set148(t)
    \/ \E t \in T : Set149(t)
    \/ \E t \in T : Set150(t)
    \/ \E t \in T : Set154(t)
    \/ \E t \in T : Set154s(t)
    \/ \E t \in T : Set163(t)

\* the refresh loop of RunRefresh
RefreshSteps(W) ==
    \/ \E w \in W : Run184(w)
    \/ \E w \in W : Run186(w)
    \/ \E w \in W : Run196(w)
    \/ \E w \in W : Run198(w)
    \/ \E w \in W : Run203(w)
    \/ \E w \in W : Run204(w)
    \/ \E w \in W : Run205(w)

\* every step of the callers in T on the keys in K (Set writing the values in V), of
\* the refresh goroutines in W, of the updateCount goroutine and of the clock
Step(T, W, K, V) ==
    \/ CallSteps(T, K, V)
    \/ HitSteps(T)
    \/ ErrorSteps(T)
    \/ DeleteSteps(T)
    \/ EnqueueSteps(T)
    \/ LoadSteps(T)
    \/ \E t \in T : Get130(t)
    \/ SetSteps(T)
    \/ \E t \in T : Set164(t)
    \/ \E t \in T : StopRefresh(t)
    \/ \E w \in W : RunRefresh(w)
    \/ \E w \in W : Run176(w)
    \/ RefreshSteps(W)
    \/ updateCount
    \/ Tick

\* one caller, the refresh goroutine NewCache starts (or one RunRefresh call when it
\* starts none), the updateCount goroutine and the clock, on one key, for every
\* configuration
Next == Step({"t1"}, {"w1"}, {"a"}, {"S1"})

Spec == Init /\ [][Next]_vars

\* a cache with graceful refresh and a Loader: one caller and the refresh goroutine
\* NewCache starts, on one key, over longer runs
RefreshParams ==
    [GracefulRefresh : {TRUE}, HasLoader : {TRUE}, LoaderFails : {TRUE},
     MaximumEntries : {1, 2}, ExpireAfterWrite : {0, 1}, EvictionSampleSize : {2}]

NextRefresh ==
    \/ CallSteps({"t1"}, {"a"}, {"S1"})
    \/ HitSteps({"t1"})
    \/ ErrorSteps({"t1"})
    \/ EnqueueSteps({"t1"})
    \/ LoadSteps({"t1"})
    \/ \E t \in {"t1"} : Get130(t)
    \/ SetSteps({"t1"})
    \/ \E t \in {"t1"} : Set164(t)
    \/ \E w \in {"w1"} : Run176(w)
    \/ RefreshSteps({"w1"})
    \/ updateCount
    \/ Tick

SpecRefresh == Initial(RefreshParams, DeepCalls) /\ [][NextRefresh]_vars

\* the same goroutines on a cache of one entry whose entries expire at once
OneEntryParams ==
    [GracefulRefresh : {TRUE}, HasLoader : {TRUE}, LoaderFails : {TRUE},
     MaximumEntries : {1}, ExpireAfterWrite : {0}, EvictionSampleSize : {2}]

SpecOneEntry == Initial(OneEntryParams, DeepCalls) /\ [][NextRefresh]_vars

\* a cache without graceful refresh, small enough to fill: one caller on two keys
EvictParams ==
    [GracefulRefresh : {FALSE}, HasLoader : BOOLEAN, LoaderFails : {TRUE},
     MaximumEntries : {1, 2}, ExpireAfterWrite : {1}, EvictionSampleSize : {2}]

NextEvict ==
    \/ CallSteps({"t1"}, Keys, {"S1"})
    \/ HitSteps({"t1"})
    \/ DeleteSteps({"t1"})
    \/ LoadSteps({"t1"})
    \/ \E t \in {"t1"} : Get130(t)
    \/ SetSteps({"t1"})
    \/ \E t \in {"t1"} : Set164(t)
    \/ updateCount
    \/ Tick

SpecEvict == Initial(EvictParams, MaxCalls) /\ [][NextEvict]_vars

\* a cache with graceful refresh and no Loader, whose refresh goroutine has
\* returned at once: nothing receives from the refresh queue; one caller on two keys
BlockParams ==
    [GracefulRefresh : {TRUE}, HasLoader : {FALSE}, LoaderFails : {TRUE},
     MaximumEntries : {2}, ExpireAfterWrite : {0, 1}, EvictionSampleSize : {2}]

NextBlock ==
    \/ CallSteps({"t1"}, Keys, {"S1"})
    \/ HitSteps({"t1"})
    \/ EnqueueSteps({"t1"})
    \/ SetSteps({"t1"})
    \/ \E w \in {"w1"} : Run176(w)
    \/ updateCount
    \/ Tick

SpecBlock == Initial(BlockParams, BlockCalls) /\ [][NextBlock]_vars

\* a step of the refresh goroutine w inside RunRefresh
WorkerStep(w) ==
    \/ Run176(w) \/ Run184(w) \/ Run186(w) \/ Run196(w) \/ Run198(w)
    \/ Run203(w) \/ Run204(w) \/ Run205(w)

\* a step of caller t inside Get or Set
CallerStep(t) ==
    \/ Get88(t) \/ Get92(t) \/ Get93(t) \/ Get93s(t) \/ Get94(t) \/ Get94e(t)
    \/ Get98(t) \/ Get102(t) \/ Get102s(t) \/ Get105(t) \/ Get106(t) \/ Get107(t)
    \/ Get113(t) \/ Get113e(t) \/ Get118(t) \/ Get129(t) \/ Get130(t)
    \/ Get133(t) \/ Get133s(t)
    \/ Set144(t) \/ Set146(t) \/ Set147(t) \/ Set148(t) \/ Set149(t) \/ Set150(t)
    \/ Set154(t) \/ Set154s(t) \/ Set163(t) \/ Set164(t)

\* a cache with graceful refresh and a Loader whose Load always succeeds: one
\* caller that only reads, on one key, and the refresh goroutine NewCache starts;
\* every goroutine that can take a step eventually takes one
LiveParams ==
    [GracefulRefresh : {TRUE}, HasLoader : {TRUE}, LoaderFails : {FALSE},
     MaximumEntries : {2}, ExpireAfterWrite : {0, 1}, EvictionSampleSize : {2}]

NextLive ==
    \/ \E t \in {"t1"}, k \in {"a"} : GetCall(t, k)
    \/ HitSteps({"t1"})
    \/ EnqueueSteps({"t1"})
    \/ LoadSteps({"t1"})
    \/ \E w \in {"w1"} : Run176(w)
    \/ \E w \in {"w1"} : Run184(w)
    \/ \E w \in {"w1"} : Run186(w)
    \/ \E w \in {"w1"} : Run196(w)
    \/ \E w \in {"w1"} : Run203(w)
    \/ \E w \in {"w1"} : Run204(w)
    \/ \E w \in {"w1"} : Run205(w)
    \/ updateCount
    \/ Tick

SpecLive ==
    /\ Initial(LiveParams, LiveCalls)
    /\ [][NextLive]_vars
    /\ WF_vars(CallerStep("t1"))
    /\ WF_vars(WorkerStep("w1"))
    /\ WF_vars(updateCount)

\* a cache with graceful refresh and a Loader, the refresh goroutine NewCache
\* starts and a second one: one caller that reads one key and ends with
\* StopRefresh; every goroutine that can take a step eventually takes one
StopParams ==
    [GracefulRefresh : {TRUE}, HasLoader : {TRUE}, LoaderFails : {TRUE},
     MaximumEntries : {2}, ExpireAfterWrite : {0}, EvictionSampleSize : {2}]

NextStop ==
    \/ ~closed /\ \E t \in {"t1"}, k \in {"a"} : GetCall(t, k)
    \/ ~closed /\ \E t \in {"t1"} : StopRefresh(t)
    \/ HitSteps({"t1"})
    \/ ErrorSteps({"t1"})
    \/ EnqueueSteps({"t1"})
    \/ LoadSteps({"t1"})
    \/ \E w \in {"w2"} : RunRefresh(w)
    \/ \E w \in Workers : Run176(w)
    \/ RefreshSteps(Workers)
    \/ updateCount

SpecStop ==
    /\ Initial(StopParams, StopCalls)
    /\ [][NextStop]_vars
    /\ WF_vars(CallerStep("t1"))
    /\ \A w \in Workers : WF_vars(WorkerStep(w))
    /\ WF_vars(updateCount)

\* a cache without graceful refresh whose Loader returns values, larger than
\* its key set: two callers on one key.  A Get that misses finds Len() below
\* MaximumEntries (the map is empty and at most the other caller's -1 is unsent),
\* so Get never reaches removeLRU here; Set does.
RaceParams ==
    [GracefulRefresh : {FALSE}, HasLoader : {TRUE}, LoaderFails : {FALSE},
     MaximumEntries : {2}, ExpireAfterWrite : {1}, EvictionSampleSize : {2}]

NextRace ==
    \/ CallSteps(Threads, {"a"}, {"S1"})
    \/ HitSteps(Threads)
    \/ DeleteSteps(Threads)
    \/ LoadSteps(Threads)
    \/ SetSteps(Threads)
    \/ \E t \in Threads : Set164(t)
    \/ updateCount
    \/ Tick

SpecRace == Initial(RaceParams, RaceCalls) /\ [][NextRace]_vars

\* the same cache with room for three entries, too many for two callers on one
\* key to make Len() reach: two callers that read one key, each miss a cmap.Set
\* and each expired hit a cmap.Del.  The callers are interchangeable, so t1 is
\* the one that calls first.
CountParams ==
    [GracefulRefresh : {FALSE}, HasLoader : {TRUE}, LoaderFails : {FALSE},
     MaximumEntries : {3}, ExpireAfterWrite : {1}, EvictionSampleSize : {2}]

NextCount ==
    \/ \E k \in {"a"} : GetCall("t1", k)
    \/ th["t1"].pc # "idle" /\ \E k \in {"a"} : GetCall("t2", k)
    \/ HitSteps(Threads)
    \/ DeleteSteps(Threads)
    \/ LoadSteps(Threads)
    \/ updateCount
    \/ Tick

SpecCount == Initial(CountParams, CountCalls) /\ [][NextCount]_vars

\* every configuration, with one caller that writes one key and the RunRefresh
\* that NewCache starts or the caller starts: what RunRefresh tests before its loop
NextConfig ==
    \/ \E t \in {"t1"}, k \in {"a"}, v \in {"S1"} : SetCall(t, k, v)
    \/ SetSteps({"t1"})
    \/ \E t \in {"t1"} : Set164(t)
    \/ \E w \in {"w1"} : RunRefresh(w)
    \/ \E w \in {"w1"} : Run176(w)
    \/ updateCount
    \/ Tick

SpecConfig == Initial(ParamSpace, ConfigCalls) /\ [][NextConfig]_vars

\* a cache with room for its one key, in every configuration in which no
\* goroutine refreshes (no graceful refresh, or graceful refresh without a
\* Loader): one caller that writes and reads the key as time passes
ExpiryParams ==
    {p \in [GracefulRefresh : BOOLEAN, HasLoader : BOOLEAN, LoaderFails : {TRUE},
            MaximumEntries : {2}, ExpireAfterWrite : {0, 1},
            EvictionSampleSize : {2}] :
        ~(p.GracefulRefresh /\ p.HasLoader)}

NextExpiry ==
    \/ CallSteps({"t1"}, {"a"}, {"S1"})
    \/ HitSteps({"t1"})
    \/ DeleteSteps({"t1"})
    \/ EnqueueSteps({"t1"})
    \/ LoadSteps({"t1"})
    \/ SetSteps({"t1"})
    \/ \E w \in {"w1"} : Run176(w)
    \/ updateCount
    \/ Tick

SpecExpiry == Initial(ExpiryParams, MaxCalls) /\ [][NextExpiry]_vars

\* the sampling pass of removeLRU as a function of the pool it finds: a full pool,
\* whatever the lastUsed of its samples, one key in the map, and a caller whose
\* Set is about to call removeLRU.  The entry at address i was last used at time i;
\* a slot that holds the entry of the map holds its key.
PoolParams ==
    [GracefulRefresh : {FALSE}, HasLoader : {FALSE}, LoaderFails : {TRUE},
     MaximumEntries : {1}, ExpireAfterWrite : {1}, EvictionSampleSize : {2}]

FullPool(used, e) ==
    [z \in 1 .. EvictionPoolSize |->
        [key |-> IF used[z] = e THEN "a" ELSE "b", value |-> used[z]]]

InitPool ==
    /\ params \in PoolParams
    /\ clock = MaxTime
    /\ \E e \in 1 .. MaxTime : entries = [k \in Keys |-> IF k = "a" THEN e ELSE NULL]
    /\ heap = [a \in Addrs |->
                 IF a <= MaxTime
                 THEN [cacheEntry EXCEPT !.value = "S1", !.lastUsed = a,
                                         !.expiration = a + params.ExpireAfterWrite]
                 ELSE cacheEntry]
    /\ Count = 1
    /\ CountChange = <<>>
    /\ refreshes = <<>>
    /\ closed = FALSE
    /\ \E used \in [1 .. EvictionPoolSize -> 1 .. MaxTime] :
           evictionPool = FullPool(used, entries["a"])
    /\ evictionPoolTop = EvictionPoolSize
    /\ th = [t \in Threads |->
                IF t = "t1"
                THEN [Idle EXCEPT !.pc = "S164", !.op = "Set", !.key = "a",
                                  !.val = "S1", !.now = clock]
                ELSE Idle]
    /\ wk = [w \in Workers |-> WIdle]
    /\ crashed = FALSE
    /\ iter = NoIter
    /\ calls = 0
    /\ InitHist

NextPool == \E t \in {"t1"} : Set164(t)

SpecPool == InitPool /\ [][NextPool]_vars

\* the map under a snapshot: one caller that sets and deletes keys on the map,
\* the goroutine of All and a consumer that deletes the key of every pair it
\* receives or sets the pair again; every goroutine that can take a step
\* eventually takes one
SnapParams ==
    [GracefulRefresh : {FALSE}, HasLoader : {FALSE}, LoaderFails : {TRUE},
     MaximumEntries : {4}, ExpireAfterWrite : {1}, EvictionSampleSize : {2}]

\* a step of the goroutine All starts
IterStep(t) == All118 \/ All127(t) \/ All125 \/ All132

\* a step of the consumer of the snapshot
ConsumerStep(t) ==
    \/ All127(t) \/ All312(t) \/ All313(t) \/ All313s(t)
    \/ All313Set(t) \/ All313p(t)

NextSnapshot ==
    \/ \E k \in Keys : MapSet("t1", k)
    \/ MapSet83("t1")
    \/ \E k \in Keys : MapDel("t1", k)
    \/ MapDel99("t1")
    \/ All113("t2")
    \/ All118
    \/ All127("t2")
    \/ All125
    \/ All132
    \/ All312("t2")
    \/ All313("t2")
    \/ All313s("t2")
    \/ All313Set("t2")
    \/ All313p("t2")
    \/ updateCount

SpecSnapshot ==
    /\ Initial(SnapParams, SnapCalls)
    /\ [][NextSnapshot]_vars
    /\ WF_vars(IterStep("t2"))
    /\ WF_vars(ConsumerStep("t2"))
    /\ WF_vars(updateCount)

\* a cache with graceful refresh and a Loader whose Load always succeeds, the
\* refresh goroutine NewCache starts and a second one: two callers that read one
\* key, whose entry is expired as soon as it is loaded
WorkerParams ==
    [GracefulRefresh : {TRUE}, HasLoader : {TRUE}, LoaderFails : {FALSE},
     MaximumEntries : {2}, ExpireAfterWrite : {0}, EvictionSampleSize : {2}]

NextWorkers ==
    \/ \E k \in {"a"} : GetCall("t1", k)
    \/ th["t1"].pc # "idle" /\ \E k \in {"a"} : GetCall("t2", k)
    \/ HitSteps(Threads)
    \/ EnqueueSteps(Threads)
    \/ LoadSteps(Threads)
    \/ \E w \in {"w2"} : RunRefresh(w)
    \/ \E w \in Workers : Run176(w)
    \/ \E w \in Workers : Run184(w)
    \/ \E w \in Workers : Run186(w)
    \/ \E w \in Workers : Run196(w)
    \/ \E w \in Workers : Run203(w)
    \/ \E w \in Workers : Run204(w)
    \/ \E w \in Workers : Run205(w)
    \/ updateCount

SpecWorkers == Initial(WorkerParams, WorkerCalls) /\ [][NextWorkers]_vars

TypeOK ==
    /\ \A k \in Keys : entries[k] \in Addrs \cup {NULL}
    /\ Count \in Int
    /\ Len(CountChange) <= CountCap
    /\ Len(refreshes) <= RefreshCap

\* ================================================================ properties
InCall(t) == th[t].pc \notin {"idle", "done", "panic"}

Done(t, op) == th[t].pc = "done" /\ th[t].op = op

Stored == {k \in Keys : entries[k] # NULL}

Queued(k) == {i \in 1 .. Len(refreshes) : refreshes[i] = k}

Shared == <<entries, heap, Count, CountChange, refreshes, closed,
            evictionPool, evictionPoolTop>>

\* ---------------------------------------------------------------- C1
\* C1 (round trip): a Get(k) called after Set(k, v) has returned, with no other
\* Set(k) called in between and strictly before the TTL the Set gave the entry
\* has elapsed, returns v and a nil error.
C1_RoundTrip ==
    \A t \in Threads :
        (/\ Done(t, "Get")
         /\ hist.exp[t] # None
         /\ hist.lastSet[th[t].key] = hist.exp[t]
         /\ th[t].now < hist.exp[t].at + params.ExpireAfterWrite)
        => (th[t].rvalue = hist.exp[t].val /\ th[t].rerr = NoErr)

\* ---------------------------------------------------------------- C2
\* C2 (eviction bound): at the return of every Get and of every Set the map holds
\* at most MaximumEntries entries.
C2_EvictionBound ==
    \A t \in Threads :
        (Done(t, "Get") \/ Done(t, "Set")) => Cardinality(Stored) <= params.MaximumEntries

\* ---------------------------------------------------------------- C3
\* C3 (single-flight enqueue): in every reachable state, a key whose entry has
\* refreshing = true is in the refresh queue at most once.
C3_SingleFlight ==
    \A k \in Keys :
        (entries[k] # NULL /\ heap[entries[k]].refreshing) => Cardinality(Queued(k)) <= 1

\* ---------------------------------------------------------------- C4
\* C4 (first access): the first call on a key, when it is a Get, returns (nil, nil)
\* and leaves the key out of the map when there is no Loader; with a Loader whose
\* Load succeeds it returns, hands back the loaded value with a nil error and
\* leaves an entry holding that value in the map.
C4_FirstAccess ==
    \A t \in Threads :
        (th[t].op = "Get" /\ hist.first[t]) =>
            /\ (Done(t, "Get") /\ ~params.HasLoader) =>
                   (th[t].rvalue = NilVal /\ th[t].rerr = NoErr /\ entries[th[t].key] = NULL)
            /\ hist.path[t] = "miss-loaded" =>
                   /\ th[t].pc # "panic"
                   /\ Done(t, "Get") =>
                          /\ th[t].rvalue \in LoadVals /\ th[t].rerr = NoErr
                          /\ entries[th[t].key] # NULL
                          /\ heap[entries[th[t].key]].value = th[t].rvalue

\* ---------------------------------------------------------------- C5
\* C5 (miss-path Loader failure): a Get that misses and whose Load fails returns
\* the zero value and the Loader's error, and neither its lookup nor its Load
\* step changes the map, the entries, the count, the refresh queue or the
\* eviction pool.
C5_MissError ==
    [][\A t \in Threads :
          /\ (th[t].pc = "G118" /\ th'[t].pc = "done") =>
                 (th'[t].rvalue = ZeroVal /\ th'[t].rerr = LoadErr)
          /\ (\/ th[t].pc = "G88" /\ th'[t].pc = "G118"
              \/ th[t].pc = "G118" /\ th'[t].pc = "done") =>
                 UNCHANGED Shared]_vars

\* a Get has returned the Loader's error from a miss, and its key is not in the map
C5_Witness ==
    \E t \in Threads :
        /\ Done(t, "Get") /\ hist.path[t] = "miss-error"
        /\ th[t].rerr = LoadErr /\ entries[th[t].key] = NULL

\* ---------------------------------------------------------------- C6
\* C6 (refresh error surfaced once): a Get that finds a refresh error on its entry
\* returns a non-nil error, and at its return the key is out of the map.
C6_ErrorSurfaced ==
    \A t \in Threads :
        (Done(t, "Get") /\ hist.path[t] = "error") =>
            (th[t].rerr # NoErr /\ entries[th[t].key] = NULL)

\* ---------------------------------------------------------------- C7
MissPaths == {"miss-noloader", "miss-error", "miss-loaded"}

\* C7 (expiry with refresh disabled): a Get that finds an expired entry in a cache
\* without graceful refresh returns the value the entry held with a nil error
\* and leaves the key out of the map; the caller's next call, when it is a Get
\* of the same key, finds no entry, and with a Loader it returns only after
\* calling Load.
C7_ExpiredDelete ==
    \A t \in Threads :
        /\ (Done(t, "Get") /\ hist.path[t] = "expired-delete") =>
               /\ th[t].rvalue = hist.held[t] /\ th[t].rerr = NoErr
               /\ entries[th[t].key] = NULL
        /\ (th[t].op = "Get" /\ hist.afterDel[t]) =>
               /\ th[t].pc \in {"G88", "G118"} \/ hist.path[t] \in MissPaths
               /\ (Done(t, "Get") /\ params.HasLoader) =>
                      hist.path[t] \in {"miss-error", "miss-loaded"}

\* a Get has deleted the expired entry and the next Get has loaded the key again
C7_Witness ==
    \E t \in Threads :
        /\ Done(t, "Get") /\ hist.afterDel[t] /\ hist.path[t] = "miss-loaded"
        /\ ~params.GracefulRefresh

\* ---------------------------------------------------------------- C8
Waiting(t) == InCall(t) /\ ~crashed /\ ~ENABLED CallerStep(t)

HitPaths == {"error", "fresh", "expired-delete", "expired-enqueue", "expired-refreshing"}

\* C8 as claimed (non-blocking reads and writes): a Get that has found an entry
\* and a Set are never waiting for another thread.
C8_NeverWaits ==
    \A t \in Threads :
        (th[t].op = "Set" \/ hist.path[t] \in HitPaths) => ~Waiting(t)

\* C8 as amended: a caller inside Get or Set waits for another thread only at a
\* channel send: at the enqueue of an expired key while the refresh queue is
\* full, or at the send of a count delta while CountChange is full.
C8_WaitsOnlyAtSend ==
    \A t \in Threads :
        Waiting(t) =>
            \/ th[t].pc = "G107" /\ Len(refreshes) = RefreshCap /\ ~closed
            \/ th[t].pc \in {"G93s", "G102s", "G133s", "S154s"}
               /\ Len(CountChange) = CountCap

\* a Get that hit an expired entry is waiting at the enqueue, the queue being full
C8_Witness ==
    \E t \in Threads :
        /\ Waiting(t) /\ th[t].pc = "G107" /\ hist.path[t] = "expired-enqueue"
        /\ Len(refreshes) = RefreshCap

\* ---------------------------------------------------------------- C9
\* the expiry check of Get takes the branch of the fresh entry
Fresh(t) == th[t].pc = "G98" /\ th'[t].pc = "G113"

\* the expiry check of Get takes the branch of the expired entry
Stale(t) == th[t].pc = "G98" /\ th'[t].pc \in {"G102", "G105"}

\* the Get that took the fresh branch reads the value and the error, and returns
FreshReturn(t) ==
    hist.path[t] = "fresh" /\ th[t].pc \in {"G113", "G113e"} /\ th'[t].pc # th[t].pc

\* C9 as claimed (TTL boundary): the expiry check treats an entry written at
\* time t as fresh when Get's time is before t + d and as stale when it is at
\* or after t + d, and the Get of a fresh entry changes nothing.
C9_StaleAtTTL ==
    [][\A t \in Threads :
          LET e == heap[th[t].entry] IN
          /\ Fresh(t) => th[t].now < e.lastUsed + params.ExpireAfterWrite
          /\ Stale(t) => th[t].now >= e.lastUsed + params.ExpireAfterWrite
          /\ FreshReturn(t) => UNCHANGED Shared]_vars

\* C9 as amended: with d > 0 the expiry check treats an entry written at time t
\* as fresh when Get's time is at or before t + d and as stale when it is after
\* t + d, and the Get of a fresh entry changes nothing.
C9_StaleAfterTTL ==
    [][\A t \in Threads :
          LET e == heap[th[t].entry] IN
          /\ (Fresh(t) /\ params.ExpireAfterWrite > 0) =>
                 th[t].now <= e.lastUsed + params.ExpireAfterWrite
          /\ (Stale(t) /\ params.ExpireAfterWrite > 0) =>
                 th[t].now > e.lastUsed + params.ExpireAfterWrite
          /\ FreshReturn(t) => UNCHANGED Shared]_vars

\* a Get at exactly t + d, d > 0, has been served as a fresh hit
C9_Witness ==
    \E t \in Threads :
        /\ Done(t, "Get") /\ hist.path[t] = "fresh"
        /\ params.ExpireAfterWrite > 0
        /\ entries[th[t].key] # NULL
        /\ th[t].now = heap[entries[th[t].key]].lastUsed + params.ExpireAfterWrite

\* ---------------------------------------------------------------- C10
\* C10 (refresh renews freshness): when a refresh goroutine completes a successful
\* reload of an entry that is still in the map, the entry's lastUsed is not
\* earlier than the time the goroutine received the key, and with d > 0 its
\* expiration is not earlier than that time plus d.
C10_RefreshRenews ==
    [][\A w \in Workers :
          (/\ wk[w].pc = "W205" /\ wk'[w].pc = "W184"
           /\ entries[wk[w].key] = wk[w].entry) =>
              LET e == heap'[wk[w].entry] IN
              /\ e.lastUsed >= hist.picked[w]
              /\ params.ExpireAfterWrite > 0 =>
                     e.expiration >= hist.picked[w] + params.ExpireAfterWrite]_vars

\* ---------------------------------------------------------------- C11
\* a Get of k has found the entry expired and has sent k to the refresh queue
Enqueued(t, k) ==
    /\ th[t].op = "Get" /\ th[t].key = k /\ th[t].pc = "G113"
    /\ hist.path[t] = "expired-enqueue"

\* the entry of k is in the map, not refreshing and without a refresh error
Refreshed(k) ==
    /\ entries[k] # NULL
    /\ ~heap[entries[k]].refreshing
    /\ heap[entries[k]].refreshError = NoErr

StoresError(w) == wk[w].pc = "W198" /\ wk'[w].pc = "W184"

\* the Get of t that found a refresh error on its entry returns
ErrorReturn(t) == th[t].pc = "G94e" /\ th'[t].pc = "done"

\* C12 (refresh failure path): a failed Load of the refresh goroutine sets only
\* refreshError on the entry (the value and refreshing = true are left as they
\* are), and the Get that then finds the refresh error returns the value the
\* entry held together with that error, the key being out of the map.
C12_RefreshFailure ==
    [][/\ \A w \in Workers :
            (StoresError(w) /\ entries[wk[w].key] = wk[w].entry) =>
                /\ heap'[wk[w].entry] =
                       [heap[wk[w].entry] EXCEPT !.refreshError = LoadErr]
                /\ heap[wk[w].entry].refreshing
       /\ \A t \in Threads :
            ErrorReturn(t) =>
                /\ th'[t].rerr = LoadErr /\ th'[t].rvalue = hist.held[t]
                /\ entries[th[t].key] = NULL]_vars

\* ---------------------------------------------------------------- C13
\* the refresh goroutine w looks up the key it received and finds no entry
MissesEntry(w) ==
    wk[w].pc = "W186" /\ cmapGet(wk[w].key) = NULL /\ wk'[w] # wk[w]

\* C13 (missing entry during refresh): a refresh goroutine that has received a
\* key with no entry in the map does not crash, changes neither the map, the
\* entries, the count, the queue nor the pool, reports nothing to a caller, and
\* is back at the head of its loop for the next key.
C13_MissingEntry ==
    [][\A w \in Workers :
          MissesEntry(w) =>
              /\ wk'[w] = [WIdle EXCEPT !.pc = "W184"]
              /\ ~crashed'
              /\ UNCHANGED Shared
              /\ UNCHANGED th]_vars

\* a refresh goroutine has skipped a key whose entry was gone and is in its loop
C13_Witness ==
    \E w \in Workers : hist.missed[w] /\ wk[w].pc \in {"W184", "W186", "W196"} /\ ~crashed

\* ---------------------------------------------------------------- C14
\* the goroutine w makes the two tests at the head of RunRefresh
ChecksConfig(w) == wk[w].pc = "W176" /\ wk'[w].pc # "W176"

\* C14 (RunRefresh preconditions): RunRefresh returns refreshErrNotEnabled on a
\* cache built without graceful refresh and the distinct refreshErrNoLoader on
\* a cache with graceful refresh and no Loader, at once: the step receives no
\* key and changes nothing of the cache; otherwise it enters its loop.
C14_Preconditions ==
    [][\A w \in Workers :
          ChecksConfig(w) =>
              /\ ~params.GracefulRefresh =>
                     wk'[w] = [wk[w] EXCEPT !.pc = "returned", !.ret = refreshErrNotEnabled]
              /\ (params.GracefulRefresh /\ ~params.HasLoader) =>
                     wk'[w] = [wk[w] EXCEPT !.pc = "returned", !.ret = refreshErrNoLoader]
              /\ (params.GracefulRefresh /\ params.HasLoader) => wk'[w].pc = "W184"
              /\ refreshErrNotEnabled # refreshErrNoLoader
              /\ refreshErrNotEnabled # NoErr /\ refreshErrNoLoader # NoErr
              /\ UNCHANGED Shared
              /\ UNCHANGED th]_vars

\* RunRefresh has returned refreshErrNotEnabled on a cache that has entries
C14_Witness ==
    \E w \in Workers :
        /\ wk[w].pc = "returned" /\ wk[w].ret = refreshErrNotEnabled
        /\ ~params.GracefulRefresh /\ Stored # {}

\* ---------------------------------------------------------------- C15
\* the goroutine w is inside RunRefresh
Running(w) == wk[w].pc \notin {"idle", "returned", "panic"}

\* C15 (StopRefresh drains and stops): once StopRefresh has closed the queue,
\* every goroutine inside RunRefresh eventually returns nil, and it returns
\* only when the queue is empty; RunRefresh never returns nil from an open queue.
C15_DrainsAndStops ==
    /\ \A w \in Workers :
           (closed /\ Running(w)) ~>
               (wk[w].pc = "returned" /\ wk[w].ret = NoErr /\ refreshes = <<>>)
    /\ [][\A w \in Workers :
             (Running(w) /\ wk'[w].pc = "returned" /\ wk'[w].ret = NoErr) =>
                 (closed /\ refreshes = <<>>)]_vars

\* the queue was closed with a key in it, a goroutine has received that key
\* and every goroutine has returned nil
C15_Witness ==
    /\ closed /\ refreshes = <<>>
    /\ \E w \in Workers : hist.drained[w]
    /\ \A w \in Workers : wk[w].pc = "returned" /\ wk[w].ret = NoErr

\* ---------------------------------------------------------------- C16
\* the sum of the deltas in the buffer of CountChange
RECURSIVE Buffered(_)
Buffered(q) == IF q = <<>> THEN 0 ELSE Head(q) + Buffered(Tail(q))

\* the delta a caller is about to send: its map update is done, its send is not
Unsent(t) ==
    IF th[t].pc \in {"G133s", "S154s"} THEN 1
    ELSE IF th[t].pc \in {"G93s", "G102s"} THEN -1
    ELSE 0

RECURSIVE UnsentOf(_)
UnsentOf(T) ==
    IF T = {} THEN 0
    ELSE LET t == CHOOSE x \in T : TRUE IN Unsent(t) + UnsentOf(T \ {t})

\* t takes the map update of cmap.Set / of cmap.Del
SetsKey(t) == th[t].pc \in {"G133", "S154"} /\ th'[t] # th[t]
DelsKey(t) == th[t].pc \in {"G93", "G102"} /\ th'[t] # th[t]

\* t sends the count delta of its map update
SendsDelta(t) == th[t].pc \in {"G133s", "S154s", "G93s", "G102s"} /\ th'[t] # th[t]

\* C16 (count convergence): Set goes on to send +1 exactly when the key was absent
\* and Del to send -1 exactly when the key was present, the send appends that one
\* delta; in every state Count plus the deltas not yet folded is the number of keys
\* in the map, and with no delta left to send or to fold Len() is that number.
C16_CountConverges ==
    /\ [][\A t \in Threads :
            /\ SetsKey(t) => /\ entries'[th[t].key] # NULL
                             /\ (Unsent(t)' = 1) <=> (entries[th[t].key] = NULL)
                             /\ (Unsent(t)' = 0) <=> (entries[th[t].key] # NULL)
            /\ DelsKey(t) => /\ entries'[th[t].key] = NULL
                             /\ (Unsent(t)' = -1) <=> (entries[th[t].key] # NULL)
                             /\ (Unsent(t)' = 0) <=> (entries[th[t].key] = NULL)
            /\ SendsDelta(t) => CountChange' = Append(CountChange, Unsent(t))]_vars
    /\ [](Count + Buffered(CountChange) + UnsentOf(Threads) = Cardinality(Stored))
    /\ []((CountChange = <<>> /\ UnsentOf(Threads) = 0) => cmapLen = Cardinality(Stored))

\* one call has deleted a key that was not there and sent nothing, no delta is
\* left to send or to fold, and Len() is the number of keys
C16_Witness ==
    /\ \E t \in Threads : hist.silent[t] = "absent"
    /\ CountChange = <<>> /\ UnsentOf(Threads) = 0
    /\ cmapLen = Cardinality(Stored)

\* ---------------------------------------------------------------- C17
\* C17 (concurrency safety): with refresh disabled and fewer keys than
\* MaximumEntries, no interleaving of Get and Set calls crashes, and a Get that
\* has returned has a nil error and a value that a Set wrote or the Loader returned.
C17_RaceSafe ==
    /\ ~crashed
    /\ \A t \in Threads :
           Done(t, "Get") => th[t].rerr = NoErr /\ th[t].rvalue \in SetVals \cup LoadVals

\* ---------------------------------------------------------------- C18
\* the caller t runs removeLRU, from Get or from Set
Evicts(t) == th[t].pc \in {"G130", "S164"} /\ th'[t] # th[t]

\* the samples held in the first `top` slots of the pool
Samples(pool, top) == {pool[z] : z \in {y \in 1 .. Len(pool) : y <= top}}

\* the samples of the pool than which none was used earlier
Oldest(pool, top) ==
    {s \in Samples(pool, top) :
        /\ s.value # NULL
        /\ \A o \in Samples(pool, top) :
               o.value # NULL => ~Before(heap[o.value].lastUsed, heap[s.value].lastUsed)}

\* C18 (eviction removes one victim): a call of removeLRU on a non-empty map
\* returns with exactly one key removed from the map, and that key is a sample of
\* the pool, as the sampling pass of the call left it, with the smallest lastUsed.
C18_OneVictim ==
    [][\A t \in Threads :
         (Evicts(t) /\ Stored # {}) =>
             /\ ~crashed'
             /\ Stored' \subseteq Stored
             /\ Cardinality(Stored \ Stored') = 1
             /\ \E ord \in RangeOrders :
                  LET s == SamplePass(evictionPool, evictionPoolTop, ord, 0)
                  IN  \E v \in Oldest(s.pool, s.top) : Stored \ Stored' = {v.key}]_vars

\* ---------------------------------------------------------------- C19
\* C19 (eviction on an empty map is a no-op): a call of removeLRU while the map
\* and the pool are empty returns without a crash and leaves the map, the pool
\* and the pool top as they were.
C19_EmptyNoOp ==
    [][\A t \in Threads :
         (Evicts(t) /\ Stored = {} /\ evictionPoolTop = 0) =>
             /\ ~crashed'
             /\ UNCHANGED <<entries, evictionPool, evictionPoolTop>>]_vars

\* ---------------------------------------------------------------- C20
\* C20 (pool bookkeeping): the pool top stays within 0 .. EvictionPoolSize and the
\* pool keeps its size; a call of removeLRU indexes the pool inside its bounds and
\* so returns, draws at most EvictionSampleSize samples, and leaves below the pool
\* top exactly the samples its sampling pass held minus the one it evicted.
C20_PoolBookkeeping ==
    /\ [](/\ evictionPoolTop \in 0 .. EvictionPoolSize
          /\ Len(evictionPool) = EvictionPoolSize
          /\ params.EvictionSampleSize <= EvictionPoolSize)
    /\ [][\A t \in Threads :
            Evicts(t) =>
                /\ ~crashed'
                /\ \E ord \in RangeOrders :
                     LET s == SamplePass(evictionPool, evictionPoolTop, ord, 0)
                     IN  /\ s.top - evictionPoolTop <= params.EvictionSampleSize
                         /\ evictionPoolTop' = s.top - 1
                         /\ \E v \in Samples(s.pool, s.top) :
                              /\ Stored \ Stored' = {v.key}
                              /\ Samples(evictionPool', evictionPoolTop')
                                     = Samples(s.pool, s.top) \ {v}]_vars

C22_ReadIsUse ==
    [][\A t \in Threads :
         (/\ th[t].pc = "G113e" /\ th'[t].pc = "done"
          /\ th[t].entry # NULL /\ entries[th[t].key] = th[t].entry) =>
             ~Before(heap'[th[t].entry].lastUsed, th[t].now)]_vars

\* ---------------------------------------------------------------- C23
\* C23 (no lock held across a channel send): the goroutine of All holds no shard
\* lock between its steps, every pair it yields was in its shard when that shard
\* was copied, and it yields no more pairs than there are keys; a map update sends
\* nothing and a count delta is sent with the map left alone; and once All has been
\* called, the snapshot is closed and the consumer that deletes or sets the yielded
\* keys comes to the end of its loop.
C23_SnapshotSafe ==
    /\ [](iter.locked = 0)
    /\ [][iter'.count = iter.count + 1 => Head(iter.keyVals) \in iter.copied]_vars
    /\ [](iter.count <= Cardinality(Keys))
    /\ [][\A t \in Threads :
            /\ (\/ th[t].pc \in {"G93", "G102", "G133", "S154", "A313"} /\ th'[t] # th[t]
                \/ calls' # calls /\ entries' # entries) =>
                   CountChange' = CountChange
            /\ (/\ th[t].pc \in {"G93s", "G102s", "G133s", "S154s", "A313s", "A313p",
                                  "M83", "M99"}
                /\ th'[t] # th[t]) =>
                   (entries' = entries /\ CountChange' # CountChange)]_vars
    /\ (iter.pc # "idle") ~> (iter.pc = "closed" /\ th["t2"].pc = "done")

\* the snapshot is closed and the consumer is done after two pairs were yielded
\* from one shard, and a key is in the map again: it was set while All ran
C23_Witness ==
    /\ iter.pc = "closed" /\ th["t2"].pc = "done" /\ th["t2"].op = "All"
    /\ iter.count = 2 /\ iter.shardOf["a"] = iter.shardOf["b"]
    /\ Stored # {}

\* ---------------------------------------------------------------- C24
\* C24 (exactly-once application): with two goroutines in RunRefresh, no key has
\* two refreshes under way at once (its places in the queue and the goroutines
\* that have received it and not yet cleared the flag), and the step that clears
\* refreshing finds it set: one cycle of the flag is one Load, one write and one
\* clearing.
C24_ExactlyOnce ==
    /\ [](\A k \in Keys :
            Cardinality(Queued(k))
            + Cardinality({w \in Workers :
                  wk[w].key = k /\ wk[w].pc \in {"W186", "W196", "W203", "W204"}}) <= 1)
    /\ [][\A w \in Workers :
            (wk[w].pc = "W204" /\ wk'[w].pc = "W205") =>
                heap[wk[w].entry].refreshing]_vars

\* ---------------------------------------------------------------- C25
\* C25 (an insertion never evicts its own key): the call of removeLRU that a
\* Set(k, v) or a missing Get(k) makes after its insertion does not crash, removes
\* a key other than k, and leaves k in the map with the value of the call.
C25_KeepsOwnKey ==
    [][\A t \in Threads :
         Evicts(t) =>
             /\ ~crashed'
             /\ th[t].key \notin Stored \ Stored'
             /\ entries'[th[t].key] # NULL
             /\ heap'[entries'[th[t].key]].value = th[t].val]_vars

\* ---------------------------------------------------------------- C26
\* C26 (a Set is not undone by an older refresh): from the return of Set(k, v)
\* until the caller's next call, whatever a refresh of k that was sent to the
\* queue before does, the entry of k holds v and no refresh error.
C26_SetSurvives ==
    [][\A t \in Threads :
         (Done(t, "Set") /\ th'[t] = th[t] /\ entries'[th[t].key] # NULL) =>
             LET e == heap'[entries'[th[t].key]] IN
             /\ e.value = hist.lastSet[th[t].key].val
             /\ e.refreshError = NoErr]_vars

\* ---------------------------------------------------------------- C27
\* C27 (a successful Set leaves the key in the map): when the Set that updates
\* the entry it found returns nil, the map holds an entry under the key, and that
\* entry holds the value of the Set.
C27_SetReachable ==
    [][\A t \in Threads :
         (th[t].pc = "S150" /\ th'[t].pc = "done") =>
             /\ entries'[th[t].key] # NULL
             /\ heap'[entries'[th[t].key]].value = th[t].val]_vars

\* ---------------------------------------------------------------- C28
\* C28 (StopRefresh is safe to use): no call of StopRefresh crashes, and a Get
\* that finds an expired entry once the refresh queue is closed goes on to return
\* the stale value: it does not crash on a send to the closed queue.
C28_StopIsSafe ==
    [][\A t \in Threads :
         /\ (/\ th[t].pc \in {"idle", "done"} /\ th'[t] # th[t]
             /\ th'[t].op = "StopRefresh") => ~crashed'
         /\ (closed /\ th[t].pc \in {"G105", "G106", "G107"} /\ th'[t] # th[t]) =>
                ~crashed']_vars

====
